---- MODULE Spec2Model ----
(***************************************************************************)
(* The schema migration engine of LinkLetter (src/database/migrate.go).    *)
(*                                                                         *)
(* Strings are sequences of one-character strings, so that splitting,      *)
(* trimming, suffix tests and integer parsing are computed as the Go code  *)
(* computes them.  Slice indices keep Go's 0-based values: index i of a Go *)
(* slice is element i+1 of the TLA+ sequence.                              *)
(***************************************************************************)
EXTENDS Integers, Sequences, FiniteSets, TLC

(***************************************************************************)
(* Bounds of the model.                                                    *)
(***************************************************************************)
\* the largest number of entries the migrations directory holds
MaxDir == 3
\* the number of DoMigrations invocations (process starts) in one behaviour
MaxRuns == 2
\* the longest slice handed to a function that is called on its own
MaxCat == 3
\* the largest number of rows of a ledger table handed to such a function
MaxRows == 2
\* the longest content of the file handed to execSQLFile called on its own
MaxLen == 5

(***************************************************************************)
(* String helpers (package strings / strconv).                             *)
(***************************************************************************)
Digits == <<"0", "1", "2", "3", "4", "5", "6", "7", "8", "9">>

\* the byte value of a character (only the order matters: ReadDir sorts by it)
Ord(c) ==
    CASE c = "\n" -> 10
      [] c = " " -> 32
      [] c = "+" -> 43
      [] c = "-" -> 45
      [] c = "." -> 46
      [] c = "0" -> 48
      [] c = "1" -> 49
      [] c = "2" -> 50
      [] c = "3" -> 51
      [] c = ";" -> 59
      [] c = "M" -> 77
      [] c = "R" -> 82
      [] c = "_" -> 95
      [] c = "a" -> 97
      [] c = "b" -> 98
      [] c = "c" -> 99
      [] c = "d" -> 100
      [] c = "e" -> 101
      [] c = "f" -> 102
      [] c = "l" -> 108
      [] c = "n" -> 110
      [] c = "q" -> 113
      [] c = "s" -> 115
      [] c = "x" -> 120
      [] OTHER -> 127

\* s < t in byte-wise lexicographic order (Go's string comparison)
RECURSIVE StrLess(_, _)
StrLess(s, t) ==
    IF t = <<>> THEN FALSE
    ELSE IF s = <<>> THEN TRUE
    ELSE IF Ord(Head(s)) # Ord(Head(t)) THEN Ord(Head(s)) < Ord(Head(t))
    ELSE StrLess(Tail(s), Tail(t))

\* strings.HasSuffix
HasSuffix(s, suffix) ==
    /\ Len(s) >= Len(suffix)
    /\ SubSeq(s, Len(s) - Len(suffix) + 1, Len(s)) = suffix

\* unicode.IsSpace on the characters the model uses
IsSpace(c) == c \in {" ", "\n", "\t", "\r"}

\* strings.TrimSpace: leading and trailing white space removed
RECURSIVE TrimLeft(_)
TrimLeft(s) ==
    IF s # <<>> /\ IsSpace(Head(s)) THEN TrimLeft(Tail(s)) ELSE s

RECURSIVE TrimRight(_)
TrimRight(s) ==
    IF s # <<>> /\ IsSpace(s[Len(s)]) THEN TrimRight(SubSeq(s, 1, Len(s) - 1)) ELSE s

TrimSpace(s) == TrimRight(TrimLeft(s))

\* strings.Split(s, sep) for a one-character separator: n separators give
\* n+1 fragments, empty ones included
RECURSIVE SplitFrom(_, _, _)
SplitFrom(s, sep, cur) ==
    IF s = <<>> THEN <<cur>>
    ELSE IF Head(s) = sep THEN <<cur>> \o SplitFrom(Tail(s), sep, <<>>)
    ELSE SplitFrom(Tail(s), sep, Append(cur, Head(s)))

Split(s, sep) == SplitFrom(s, sep, <<>>)

\* the value of a decimal digit, -1 for any other character
DigitVal(c) ==
    IF \E i \in 1..10 : Digits[i] = c
    THEN (CHOOSE i \in 1..10 : Digits[i] = c) - 1
    ELSE -1

RECURSIVE ParseDigits(_, _)
ParseDigits(s, acc) ==
    IF s = <<>> THEN [ok |-> TRUE, val |-> acc]
    ELSE IF DigitVal(Head(s)) < 0 THEN [ok |-> FALSE, val |-> 0]
    ELSE ParseDigits(Tail(s), acc * 10 + DigitVal(Head(s)))

\* strconv.Atoi: an optional sign followed by at least one decimal digit
Atoi(s) ==
    IF s = <<>> THEN [ok |-> FALSE, val |-> 0]
    ELSE IF Head(s) \in {"+", "-"}
    THEN IF Tail(s) = <<>> THEN [ok |-> FALSE, val |-> 0]
         ELSE LET r == ParseDigits(Tail(s), 0)
              IN  IF ~r.ok THEN r
                  ELSE [ok |-> TRUE, val |-> IF Head(s) = "-" THEN 0 - r.val ELSE r.val]
    ELSE ParseDigits(s, 0)

(***************************************************************************)
(* The migrations directory: the entries a behaviour draws from, and the   *)
(* content of each file.                                                   *)
(***************************************************************************)
Name1a == <<"1", "_", "a", ".", "s", "q", "l">>
Name2b == <<"2", "_", "b", ".", "s", "q", "l">>
Name2a == <<"2", "_", "a", ".", "s", "q", "l">>
Name10c == <<"1", "0", "_", "c", ".", "s", "q", "l">>
NameNeg == <<"-", "1", "_", "n", ".", "s", "q", "l">>
NameNoNum == <<"x", "_", "1", ".", "s", "q", "l">>
NameReadme == <<"R", "M">>
Name3d == <<"3", "_", "d", ".", "s", "q", "l">>
\* the ledger value of TestDoMigrationsCouldNotFind: the name of no file
NameGone == <<"d", ".", "s", "q", "l">>

\* every entry the directory may hold (os.FileInfo: Name(), IsDir())
DirUniverse ==
    { [name |-> Name1a, isDir |-> FALSE],
      [name |-> Name2b, isDir |-> FALSE],
      [name |-> Name2a, isDir |-> FALSE],
      [name |-> Name10c, isDir |-> FALSE],
      [name |-> NameNeg, isDir |-> FALSE],
      [name |-> NameNoNum, isDir |-> FALSE],
      [name |-> NameReadme, isDir |-> FALSE],
      [name |-> Name3d, isDir |-> TRUE] }

\* the file of the test assets that the tests of execSQLFile read
NameAsset == <<"1", "_", "f", ".", "s", "q", "l">>

VARIABLE
    testAsset     \* the content of the file NameAsset

\* the bytes of the file migrations/<name>
FileContent(name) ==
    CASE name = NameAsset -> testAsset
      [] name = Name1a -> <<" ", "a", " ", "b", ";", "\n", "c", ";", "\n">>
      [] name = Name2b -> <<"d", ";", ";", " ", "e">>
      [] name = Name2a -> <<" ", ";", "\n">>
      [] name = Name10c -> <<"f">>
      [] name = NameNeg -> <<"n", ";">>
      [] OTHER -> <<"x">>

(***************************************************************************)
(* Migration Catalog.                                                      *)
(***************************************************************************)
\* ioutil.ReadDir: the entries of the directory sorted by file name
RECURSIVE ReadDir(_)
ReadDir(entries) ==
    IF entries = {} THEN <<>>
    ELSE LET first == CHOOSE e \in entries :
                          \A o \in entries \ {e} : StrLess(e.name, o.name)
         IN  <<first>> \o ReadDir(entries \ {first})

\* the numeric prefix of a migration file name and whether it parsed
getMigrationIndex(migration) == Atoi(Split(migration, "_")[1])

\* Less by the order of the names instead of the order of the numbers
LessLexicographic(a, b) == StrLess(a, b)

\* byMigrationIndex.Less on two names (the parse errors are dropped)
Less(a, b) == getMigrationIndex(a).val < getMigrationIndex(b).val

\* an insertion that puts x before the elements it is equal to
RECURSIVE InsertBeforeEqual(_, _)
InsertBeforeEqual(sorted, x) ==
    IF sorted = <<>> THEN <<x>>
    ELSE IF ~Less(Head(sorted), x) THEN <<x>> \o sorted
    ELSE <<Head(sorted)>> \o InsertBeforeEqual(Tail(sorted), x)

\* sort.Stable: x goes before the first element that it is Less than
RECURSIVE InsertStable(_, _)
InsertStable(sorted, x) ==
    IF sorted = <<>> THEN <<x>>
    ELSE IF Less(x, Head(sorted)) THEN <<x>> \o sorted
    ELSE <<Head(sorted)>> \o InsertStable(Tail(sorted), x)

RECURSIVE SortStable(_)
SortStable(array) ==
    IF array = <<>> THEN <<>>
    ELSE InsertStable(SortStable(SubSeq(array, 1, Len(array) - 1)), array[Len(array)])

\* the loop of getMigrationsInOrder over the listing
RECURSIVE FilterMigrations(_)
FilterMigrations(files) ==
    IF files = <<>> THEN <<>>
    ELSE LET f == Head(files)
             rest == FilterMigrations(Tail(files))
         IN  IF ~f.isDir /\ HasSuffix(f.name, <<".", "s", "q", "l">>)
                /\ getMigrationIndex(f.name).ok
             THEN <<f.name>> \o rest
             ELSE rest

getMigrationsInOrder(entries) == SortStable(FilterMigrations(ReadDir(entries)))

\* posInSlice: the 0-based index of the first element equal to value, or -1
RECURSIVE posInSliceFrom(_, _, _)
posInSliceFrom(array, value, index) ==
    IF index >= Len(array) THEN 0 - 1
    ELSE IF value = array[index + 1] THEN index
    ELSE posInSliceFrom(array, value, index + 1)

posInSlice(array, value) == posInSliceFrom(array, value, 0)

\* getCurrentMigrationIndex without the test for -1: a missing
\* ledger entry starts the batch at index 0
getCurrentMigrationIndexNoCheck(currentMigration, migrations) ==
    IF currentMigration # <<>>
    THEN posInSlice(migrations, currentMigration) + 1
    ELSE 0

\* getCurrentMigrationIndex returning the position of the ledger entry
\* itself instead of the position after it
getCurrentMigrationIndexOffByOne(currentMigration, migrations) ==
    IF currentMigration # <<>>
    THEN posInSlice(migrations, currentMigration)
    ELSE 0

\* getCurrentMigrationIndex taking no notice of the ledger: the batch
\* starts at the first file of the catalog
getCurrentMigrationIndexFromStart(currentMigration, migrations) ==
    IF currentMigration # <<>> /\ posInSlice(migrations, currentMigration) = 0 - 1
    THEN 0 - 1
    ELSE 0

\* getCurrentMigrationIndex, given the value getCurrentMigration read
getCurrentMigrationIndex(currentMigration, migrations) ==
    IF currentMigration # <<>>
    THEN LET startIndex == posInSlice(migrations, currentMigration)
         IN  IF startIndex = 0 - 1 THEN startIndex ELSE startIndex + 1
    ELSE 0

\* the statements execSQLFile executes for a file content, in order
\* (the fragments of the split that are not empty after trimming)
RECURSIVE TrimmedNonEmpty(_)
TrimmedNonEmpty(fragments) ==
    IF fragments = <<>> THEN <<>>
    ELSE IF TrimSpace(Head(fragments)) = <<>> THEN TrimmedNonEmpty(Tail(fragments))
    ELSE <<TrimSpace(Head(fragments))>> \o TrimmedNonEmpty(Tail(fragments))

(***************************************************************************)
(* State.                                                                  *)
(***************************************************************************)
VARIABLES
    dir,          \* the entries of the migrations directory
    tableExists,  \* committed: the table _migrations_ exists
    rows,         \* committed: the version column of the rows of _migrations_
    data,         \* committed: the migration statements whose effects persist
    pc,           \* the position of the current invocation of DoMigrations
    runs,         \* the number of invocations started
    prevOutcome,  \* how the previous invocation ended ("None" before the first)
    dirChanged,   \* the directory changed since the previous invocation ended
    migrations,   \* DoMigrations: the catalog
    startIndex,   \* DoMigrations: the start index (0-based, -1 not found)
    pending,      \* performNeededMigrations: the files the loop has yet to visit
    curFile,      \* execSQLFile: the file being executed
    fragments,    \* execSQLFile: the fragments of the split still to visit
    tx,           \* the transaction: "none", "open", "committed", "rolledback", "failed"
    txRows,       \* the rows of _migrations_ as the open transaction sees them
    txData,       \* the statements executed in the open transaction
    db0,          \* the committed database when the invocation started
    dbTx,         \* the committed database when the transaction was begun
    log,          \* what the invocation did so far, in order
    server,       \* main: the web server is "none", "created" or "listening"
    other,        \* the invocation of a second process, while it does not run
    appendOnly,   \* every change of the directory so far has only added files
                  \* at the end of the catalog
    req,          \* web: the request the middleware is handed
    resp          \* web: the response to it

\* the variables that only the functions called on their own use
webVars == <<req, resp>>
unitVars == <<testAsset, other, webVars>>

\* the directory and what is remembered of its changes
dirVars == <<dir, appendOnly>>

vars == <<unitVars, server, dirVars, tableExists, rows, data, pc, runs, prevOutcome, dirChanged,
          migrations, startIndex, pending, curFile, fragments, tx, txRows,
          txData, db0, dbTx, log>>

dbVars == <<tableExists, rows, data>>
txVars == <<tx, txRows, txData, dbTx>>
loopVars == <<pending, curFile, fragments>>
envVars == <<unitVars, server, dirVars, runs, prevOutcome, dirChanged, db0>>

\* the committed database as one value
CommittedDb == [tableExists |-> tableExists, rows |-> rows, data |-> data]

NoDb == [tableExists |-> FALSE, rows |-> <<>>, data |-> <<>>]

\* an entry of the log: the operation, the migration file it belongs to,
\* its argument (a statement or a ledger value) and whether it succeeded
Ev(op, file, arg, ok) == [op |-> op, file |-> file, arg |-> arg, ok |-> ok]

\* const migrationTable = "_migrations_"
migrationTable == <<"_", "m", "_">>

\* no request has come in, and nothing has been written to the response
NoRequest == [path |-> "", method |-> "", cookie |-> [present |-> FALSE]]
NoResponse == [status |-> 0, location |-> "", next |-> FALSE]

\* the variables of an invocation that has not started
IdleLocals ==
    [pc |-> "Idle", migrations |-> <<>>, startIndex |-> 0, pending |-> <<>>,
     curFile |-> <<>>, fragments |-> <<>>, tx |-> "none", txRows |-> <<>>,
     txData |-> <<>>, db0 |-> NoDb, dbTx |-> NoDb, log |-> <<>>]

Terminal == {"UpToDate", "NotFound", "Committed", "RolledBack", "Fatal", "CommitFailed"}

(***************************************************************************)
(* Initial states: a directory of at most MaxDir entries, and a database   *)
(* without the ledger table, with a fresh ledger, or with a ledger that    *)
(* names a file that is not in the directory.                              *)
(***************************************************************************)
Init ==
    /\ testAsset = <<>>
    /\ server = "none"
    /\ other = IdleLocals
    /\ appendOnly = TRUE
    /\ req = NoRequest
    /\ resp = NoResponse
    /\ dir \in {d \in SUBSET DirUniverse : Cardinality(d) <= MaxDir}
    /\ \/ tableExists = FALSE /\ rows = <<>>
       \/ tableExists = TRUE /\ rows \in {<< <<>> >>, <<NameGone>>}
    /\ data = <<>>
    /\ pc = "Idle"
    /\ runs = 0
    /\ prevOutcome = "None"
    /\ dirChanged = FALSE
    /\ migrations = <<>>
    /\ startIndex = 0
    /\ pending = <<>>
    /\ curFile = <<>>
    /\ fragments = <<>>
    /\ tx = "none"
    /\ txRows = <<>>
    /\ txData = <<>>
    /\ db0 = NoDb
    /\ dbTx = NoDb
    /\ log = <<>>

(***************************************************************************)
(* The environment: the process is started (again), and between two        *)
(* invocations the operator adds or removes files of the directory.        *)
(***************************************************************************)
\* main: the call of database.DoMigrations(db)
Start ==
    /\ pc = "Idle"
    /\ runs < MaxRuns
    /\ runs' = runs + 1
    /\ pc' = "TableCheck"
    /\ db0' = CommittedDb
    /\ UNCHANGED <<unitVars, server, dirVars, prevOutcome, dirChanged, dbVars, migrations,
                   startIndex, loopVars, txVars, log>>

\* the process ended: DoMigrations panicked, or main returned or was stopped;
\* the locals of the invocation are gone
Exit ==
    /\ pc \in Terminal
    /\ pc' = "Idle"
    /\ prevOutcome' = pc
    /\ migrations' = <<>>
    /\ startIndex' = 0
    /\ pending' = <<>>
    /\ curFile' = <<>>
    /\ fragments' = <<>>
    /\ tx' = "none"
    /\ txRows' = <<>>
    /\ txData' = <<>>
    /\ db0' = NoDb
    /\ dbTx' = NoDb
    /\ log' = <<>>
    /\ dirChanged' = FALSE
    /\ server' = "none"
    /\ UNCHANGED <<unitVars, dirVars, runs, dbVars>>

\* DoMigrations returned: it did not panic
NormalReturn == {"UpToDate", "NotFound", "Committed", "CommitFailed"}

\* main with a deferred recover: the server is created after a panic too
CreateServerAfterPanic ==
    /\ pc \in Terminal
    /\ server = "none"
    /\ server' = "created"
    /\ UNCHANGED <<unitVars, dirVars, runs, prevOutcome, dirChanged, db0, dbVars, pc,
                   migrations, startIndex, loopVars, txVars, log>>

\* main: server := web.CreateServer(conf, db), the statement after
\* database.DoMigrations(db); a panic of DoMigrations ends the process
CreateServer ==
    /\ pc \in NormalReturn
    /\ server = "none"
    /\ server' = "created"
    /\ UNCHANGED <<unitVars, dirVars, runs, prevOutcome, dirChanged, db0, dbVars, pc,
                   migrations, startIndex, loopVars, txVars, log>>

\* main: http.ListenAndServe(...)
ListenAndServe ==
    /\ server = "created"
    /\ server' = "listening"
    /\ UNCHANGED <<unitVars, dirVars, runs, prevOutcome, dirChanged, db0, dbVars, pc,
                   migrations, startIndex, loopVars, txVars, log>>

\* the catalog after a change of the directory is the catalog before it,
\* followed by the files that were added (none, if no migration file was)
IsExtension(before, after) ==
    /\ Len(before) <= Len(after)
    /\ SubSeq(after, 1, Len(before)) = before

\* the operator puts a file into the directory migrations/
AddFile ==
    /\ pc = "Idle"
    /\ runs > 0 /\ runs < MaxRuns
    /\ Cardinality(dir) < MaxDir
    /\ \E e \in DirUniverse \ dir : dir' = dir \cup {e}
    /\ dirChanged' = TRUE
    /\ appendOnly' = (appendOnly /\ IsExtension(getMigrationsInOrder(dir),
                                                 getMigrationsInOrder(dir')))
    /\ UNCHANGED <<unitVars, server, pc, runs, prevOutcome, db0, dbVars, migrations,
                   startIndex, loopVars, txVars, log>>

\* the operator takes a file out of the directory migrations/
RemoveFile ==
    /\ pc = "Idle"
    /\ runs > 0 /\ runs < MaxRuns
    /\ \E e \in dir : dir' = dir \ {e}
    /\ dirChanged' = TRUE
    /\ appendOnly' = (appendOnly /\ IsExtension(getMigrationsInOrder(dir),
                                                 getMigrationsInOrder(dir')))
    /\ UNCHANGED <<unitVars, server, pc, runs, prevOutcome, db0, dbVars, migrations,
                   startIndex, loopVars, txVars, log>>

(***************************************************************************)
(* Version Tracker.                                                        *)
(***************************************************************************)
\* doesMigrationTableExist, as called by createMigrationTableIfNeeded, with
\* the table of the listing inverted
DoesMigrationTableExistInverted ==
    /\ pc = "TableCheck"
    /\ \E ok \in BOOLEAN, found \in {~tableExists} :
          /\ log' = Append(log, Ev("listTables", <<>>, IF ok /\ found THEN migrationTable ELSE <<>>, ok))
          /\ pc' = IF ~ok THEN "Fatal"
                   ELSE IF ~found THEN "LoadCatalog" ELSE "CreateTable"
    /\ UNCHANGED <<envVars, dbVars, migrations, startIndex, loopVars, txVars>>

\* doesMigrationTableExist, as called by createMigrationTableIfNeeded: the
\* query fails (panic), or the listing is read row by row; rows.Err() is not
\* looked at, so a listing that breaks off before the row of the table is
\* reached reads as "no such table".  The entry of the log carries the name
\* that was found, if any.
DoesMigrationTableExist ==
    /\ pc = "TableCheck"
    /\ \E ok \in BOOLEAN, found \in (IF tableExists THEN BOOLEAN ELSE {FALSE}) :
          /\ log' = Append(log, Ev("listTables", <<>>, IF ok /\ found THEN migrationTable ELSE <<>>, ok))
          /\ pc' = IF ~ok THEN "Fatal"
                   ELSE IF found THEN "LoadCatalog" ELSE "CreateTable"
    /\ UNCHANGED <<envVars, dbVars, migrations, startIndex, loopVars, txVars>>

\* createMigrationTable: db.Exec(createMigrationTableQuery); the statement
\* is a plain CREATE TABLE, which the database refuses for a table that exists
CreateTable ==
    /\ pc = "CreateTable"
    /\ \E ok \in (IF tableExists THEN {FALSE} ELSE BOOLEAN) :
          /\ log' = Append(log, Ev("createTable", <<>>, <<>>, ok))
          /\ IF ok
             THEN /\ tableExists' = TRUE
                  /\ rows' = <<>>
                  /\ pc' = "SeedRow"
             ELSE /\ UNCHANGED <<tableExists, rows>>
                  /\ pc' = "Fatal"
    /\ UNCHANGED <<envVars, data, migrations, startIndex, loopVars, txVars>>

\* createMigrationTable with a first entry of two rows
InsertFirstEntryTwice ==
    /\ pc = "SeedRow"
    /\ \E ok \in BOOLEAN :
          /\ log' = Append(log, Ev("insertSeed", <<>>, <<>>, ok))
          /\ IF ok
             THEN /\ rows' = rows \o << <<>>, <<>> >>
                  /\ pc' = "LoadCatalog"
             ELSE /\ UNCHANGED rows
                  /\ pc' = "Fatal"
    /\ UNCHANGED <<envVars, tableExists, data, migrations, startIndex, loopVars, txVars>>

\* createMigrationTable: db.Exec(createFirstEntryQuery)
InsertFirstEntry ==
    /\ pc = "SeedRow"
    /\ \E ok \in BOOLEAN :
          /\ log' = Append(log, Ev("insertSeed", <<>>, <<>>, ok))
          /\ IF ok
             THEN /\ rows' = Append(rows, <<>>)
                  /\ pc' = "LoadCatalog"
             ELSE /\ UNCHANGED rows
                  /\ pc' = "Fatal"
    /\ UNCHANGED <<envVars, tableExists, data, migrations, startIndex, loopVars, txVars>>

\* getMigrationsInOrder going on with an empty catalog when ioutil.ReadDir
\* fails
LoadCatalogIgnoreErr ==
    /\ pc = "LoadCatalog"
    /\ \E ok \in BOOLEAN :
          /\ log' = Append(log, Ev("readDir", <<>>, <<>>, ok))
          /\ migrations' = IF ok THEN getMigrationsInOrder(dir) ELSE <<>>
          /\ pc' = "ResolvePosition"
    /\ UNCHANGED <<envVars, dbVars, startIndex, loopVars, txVars>>

\* getMigrationsInOrder listing the directory again when ioutil.ReadDir fails
LoadCatalogRetry ==
    /\ pc = "LoadCatalog"
    /\ \E ok \in BOOLEAN :
          /\ log' = Append(log, Ev("readDir", <<>>, <<>>, ok))
          /\ IF ok
             THEN /\ migrations' = getMigrationsInOrder(dir)
                  /\ pc' = "ResolvePosition"
             ELSE UNCHANGED <<migrations, pc>>
    /\ UNCHANGED <<envVars, dbVars, startIndex, loopVars, txVars>>

\* DoMigrations: migrations := getMigrationsInOrder()
LoadCatalog ==
    /\ pc = "LoadCatalog"
    /\ \E ok \in BOOLEAN :
          /\ log' = Append(log, Ev("readDir", <<>>, <<>>, ok))
          /\ IF ok
             THEN /\ migrations' = getMigrationsInOrder(dir)
                  /\ pc' = "ResolvePosition"
             ELSE /\ UNCHANGED migrations
                  /\ pc' = "Fatal"
    /\ UNCHANGED <<envVars, dbVars, startIndex, loopVars, txVars>>

\* DoMigrations: startIndex := getCurrentMigrationIndex(db, migrations);
\* getCurrentMigration panics when the query fails or returns no row, and
\* LIMIT 1 without ORDER BY returns any one row
ResolvePosition ==
    /\ pc = "ResolvePosition"
    /\ \/ /\ tableExists
          /\ \E i \in 1..Len(rows) :
                /\ startIndex' = getCurrentMigrationIndex(rows[i], migrations)
                /\ log' = Append(log, Ev("selectVersion", <<>>, rows[i], TRUE))
          /\ pc' = "PositionResolved"
       \/ /\ log' = Append(log, Ev("selectVersion", <<>>, <<>>, FALSE))
          /\ pc' = "Fatal"
          /\ UNCHANGED startIndex
    /\ UNCHANGED <<envVars, dbVars, migrations, loopVars, txVars>>

(***************************************************************************)
(* Migration Executor.                                                     *)
(***************************************************************************)
\* the slice taken one position too far, migrations[startIndex+1:]
pendingMigrationsSkip(migs, start) == SubSeq(migs, start + 2, Len(migs))

\* performNeededMigrations: the slice migrations[startIndex:]
pendingMigrations(migs, start) == SubSeq(migs, start + 1, Len(migs))

\* the first file of the catalog instead of the last, migrations[0]
newestMigrationFirst(migs) == migs[1]

\* the number of the last file instead of its name
newestMigrationPrefix(migs) == Split(migs[Len(migs)], "_")[1]

\* updateMigrationTable: migrations[len(migrations)-1]
newestMigration(migs) == migs[Len(migs)]

\* updateMigrationQuery has no WHERE clause: every row gets the version
updateAllRows(table, version) == [i \in 1..Len(table) |-> version]

\* statements executed on the connection instead of the transaction:
\* their effects persist however the transaction ends
dbAfterTxKeepsData(end) ==
    IF end = "commit"
    THEN [rows |-> txRows, data |-> data \o txData]
    ELSE [rows |-> rows, data |-> data \o txData]

\* the committed ledger rows and data once the transaction has ended with
\* tx.Commit() ("commit") or tx.Rollback() ("rollback")
dbAfterTx(end) ==
    IF end = "commit"
    THEN [rows |-> txRows, data |-> data \o txData]
    ELSE [rows |-> rows, data |-> data]

\* DoMigrations: startIndex == -1, the warning and the return
NotFound ==
    /\ pc = "PositionResolved"
    /\ startIndex = 0 - 1
    /\ log' = Append(log, Ev("warning", <<>>, <<>>, TRUE))
    /\ pc' = "NotFound"
    /\ UNCHANGED <<envVars, dbVars, migrations, startIndex, loopVars, txVars>>

\* DoMigrations: startIndex == len(migrations), the debug line and the return
UpToDate ==
    /\ pc = "PositionResolved"
    /\ startIndex # 0 - 1
    /\ startIndex = Len(migrations)
    /\ log' = Append(log, Ev("upToDate", <<>>, <<>>, TRUE))
    /\ pc' = "UpToDate"
    /\ UNCHANGED <<envVars, dbVars, migrations, startIndex, loopVars, txVars>>

\* DoMigrations without the startIndex == len(migrations) test
BeginNoUpToDateCheck ==
    /\ pc = "PositionResolved"
    /\ startIndex # 0 - 1
    /\ \E ok \in BOOLEAN :
          /\ log' = Append(log, Ev("begin", <<>>, <<>>, ok))
          /\ IF ok
             THEN /\ tx' = "open"
                  /\ txRows' = rows
                  /\ txData' = <<>>
                  /\ dbTx' = CommittedDb
                  /\ pending' = pendingMigrations(migrations, startIndex)
                  /\ pc' = "Applying"
             ELSE /\ UNCHANGED <<txVars, pending>>
                  /\ pc' = "Fatal"
    /\ UNCHANGED <<envVars, dbVars, migrations, startIndex, curFile, fragments>>

\* DoMigrations comparing the start index with len(migrations)-1
BeginUpToDateOffByOne ==
    /\ pc = "PositionResolved"
    /\ startIndex # 0 - 1
    /\ startIndex # Len(migrations) - 1
    /\ \E ok \in BOOLEAN :
          /\ log' = Append(log, Ev("begin", <<>>, <<>>, ok))
          /\ IF ok
             THEN /\ tx' = "open"
                  /\ txRows' = rows
                  /\ txData' = <<>>
                  /\ dbTx' = CommittedDb
                  /\ pending' = pendingMigrations(migrations, startIndex)
                  /\ pc' = "Applying"
             ELSE /\ UNCHANGED <<txVars, pending>>
                  /\ pc' = "Fatal"
    /\ UNCHANGED <<envVars, dbVars, migrations, startIndex, curFile, fragments>>

\* DoMigrations taking a lock first: no transaction is begun while the
\* other process has one open
BeginExclusive ==
    /\ pc = "PositionResolved"
    /\ startIndex # 0 - 1
    /\ startIndex # Len(migrations)
    /\ other.tx # "open"
    /\ \E ok \in BOOLEAN :
          /\ log' = Append(log, Ev("begin", <<>>, <<>>, ok))
          /\ IF ok
             THEN /\ tx' = "open"
                  /\ txRows' = rows
                  /\ txData' = <<>>
                  /\ dbTx' = CommittedDb
                  /\ pending' = pendingMigrations(migrations, startIndex)
                  /\ pc' = "Applying"
             ELSE /\ UNCHANGED <<txVars, pending>>
                  /\ pc' = "Fatal"
    /\ UNCHANGED <<envVars, dbVars, migrations, startIndex, curFile, fragments>>

\* DoMigrations: tx, err := db.Begin(), and the entry of performNeededMigrations
Begin ==
    /\ pc = "PositionResolved"
    /\ startIndex # 0 - 1
    /\ startIndex # Len(migrations)
    /\ \E ok \in BOOLEAN :
          /\ log' = Append(log, Ev("begin", <<>>, <<>>, ok))
          /\ IF ok
             THEN /\ tx' = "open"
                  /\ txRows' = rows
                  /\ txData' = <<>>
                  /\ dbTx' = CommittedDb
                  /\ pending' = pendingMigrations(migrations, startIndex)
                  /\ pc' = "Applying"
             ELSE /\ UNCHANGED <<txVars, pending>>
                  /\ pc' = "Fatal"
    /\ UNCHANGED <<envVars, dbVars, migrations, startIndex, curFile, fragments>>

\* the error path of performNeededMigrations and updateMigrationTable:
\* tx.Rollback() and panic(err)
RollbackAndPanic(event) ==
    /\ log' = log \o <<event, Ev("rollback", event.file, <<>>, TRUE)>>
    /\ tx' = "rolledback"
    /\ txRows' = <<>>
    /\ txData' = <<>>
    /\ rows' = dbAfterTx("rollback").rows
    /\ data' = dbAfterTx("rollback").data
    /\ pc' = "RolledBack"
    /\ UNCHANGED <<envVars, tableExists, migrations, startIndex, loopVars, dbTx>>

\* performNeededMigrations beginning a transaction of its own for each file
OpenFileOwnTx ==
    /\ pc = "Applying"
    /\ fragments = <<>>
    /\ pending # <<>>
    /\ LET migration == Head(pending)
       IN  \/ /\ log' = log \o <<Ev("begin", migration, <<>>, TRUE),
                                 Ev("readFile", migration, <<>>, TRUE)>>
              /\ curFile' = migration
              /\ fragments' = Split(FileContent(migration), ";")
              /\ pending' = Tail(pending)
              /\ UNCHANGED <<envVars, dbVars, migrations, startIndex, txVars, pc>>
           \/ RollbackAndPanic(Ev("readFile", migration, <<>>, FALSE))

\* performNeededMigrations: the next file of the loop; execSQLFile reads it
\* and splits its content
OpenFile ==
    /\ pc = "Applying"
    /\ fragments = <<>>
    /\ pending # <<>>
    /\ LET migration == Head(pending)
       IN  \/ /\ log' = Append(log, Ev("readFile", migration, <<>>, TRUE))
              /\ curFile' = migration
              /\ fragments' = Split(FileContent(migration), ";")
              /\ pending' = Tail(pending)
              /\ UNCHANGED <<envVars, dbVars, migrations, startIndex, txVars, pc>>
           \/ RollbackAndPanic(Ev("readFile", migration, <<>>, FALSE))

\* execSQLFile dropping the error of tx.Exec and going on with the loop
ExecStatementIgnoreErr ==
    /\ pc = "Applying"
    /\ fragments # <<>>
    /\ LET statement == TrimSpace(Head(fragments))
       IN  IF statement = <<>>
           THEN /\ fragments' = Tail(fragments)
                /\ UNCHANGED <<envVars, dbVars, migrations, startIndex, pending,
                               curFile, txVars, pc, log>>
           ELSE \E ok \in BOOLEAN :
                   /\ log' = Append(log, Ev("exec", curFile, statement, ok))
                   /\ txData' = IF ok THEN Append(txData, statement) ELSE txData
                   /\ fragments' = Tail(fragments)
                   /\ UNCHANGED <<envVars, dbVars, migrations, startIndex, pending,
                                  curFile, tx, txRows, dbTx, pc>>

\* execSQLFile handing the fragment to tx.Exec as it was split
ExecStatementUntrimmed ==
    /\ pc = "Applying"
    /\ fragments # <<>>
    /\ LET statement == Head(fragments)
       IN  IF TrimSpace(statement) = <<>>
           THEN /\ fragments' = Tail(fragments)
                /\ UNCHANGED <<envVars, dbVars, migrations, startIndex, pending,
                               curFile, txVars, pc, log>>
           ELSE \/ /\ log' = Append(log, Ev("exec", curFile, statement, TRUE))
                   /\ txData' = Append(txData, statement)
                   /\ fragments' = Tail(fragments)
                   /\ UNCHANGED <<envVars, dbVars, migrations, startIndex, pending,
                                  curFile, tx, txRows, dbTx, pc>>
                \/ RollbackAndPanic(Ev("exec", curFile, statement, FALSE))

\* execSQLFile: one iteration of the loop over the fragments
ExecStatement ==
    /\ pc = "Applying"
    /\ fragments # <<>>
    /\ LET statement == TrimSpace(Head(fragments))
       IN  IF statement = <<>>
           THEN /\ fragments' = Tail(fragments)
                /\ UNCHANGED <<envVars, dbVars, migrations, startIndex, pending,
                               curFile, txVars, pc, log>>
           ELSE \/ /\ log' = Append(log, Ev("exec", curFile, statement, TRUE))
                   /\ txData' = Append(txData, statement)
                   /\ fragments' = Tail(fragments)
                   /\ UNCHANGED <<envVars, dbVars, migrations, startIndex, pending,
                                  curFile, tx, txRows, dbTx, pc>>
                \/ RollbackAndPanic(Ev("exec", curFile, statement, FALSE))

\* performNeededMigrations returning after the first file it executed
FinishPerformEarly ==
    /\ pc = "Applying"
    /\ fragments = <<>>
    /\ curFile # <<>> \/ pending = <<>>
    /\ pc' = "Performed"
    /\ UNCHANGED <<envVars, dbVars, migrations, startIndex, loopVars, txVars, log>>

\* performNeededMigrations returns; DoMigrations logs that it is finished
FinishPerform ==
    /\ pc = "Applying"
    /\ fragments = <<>>
    /\ pending = <<>>
    /\ pc' = "Performed"
    /\ UNCHANGED <<envVars, dbVars, migrations, startIndex, loopVars, txVars, log>>

\* updateMigrationTable
UpdateMigrationTable ==
    /\ pc = "Performed"
    /\ migrations # <<>>
    /\ \/ /\ log' = Append(log, Ev("update", <<>>, newestMigration(migrations), TRUE))
          /\ txRows' = updateAllRows(txRows, newestMigration(migrations))
          /\ pc' = "Commit"
          /\ UNCHANGED <<envVars, dbVars, migrations, startIndex, loopVars, tx,
                         txData, dbTx>>
       \/ RollbackAndPanic(Ev("update", <<>>, newestMigration(migrations), FALSE))

\* DoMigrations: tx.Commit(), whose error is dropped, and the return
Commit ==
    /\ pc = "Commit"
    /\ \E ok \in BOOLEAN :
          /\ log' = Append(log, Ev("commit", <<>>, <<>>, ok))
          /\ IF ok
             THEN /\ rows' = dbAfterTx("commit").rows
                  /\ data' = dbAfterTx("commit").data
                  /\ tx' = "committed"
                  /\ pc' = "Committed"
             ELSE /\ rows' = dbAfterTx("rollback").rows
                  /\ data' = dbAfterTx("rollback").data
                  /\ tx' = "failed"
                  /\ pc' = "CommitFailed"
    /\ UNCHANGED <<envVars, tableExists, migrations, startIndex, loopVars, txRows,
                   txData, dbTx>>

Next ==
    \/ Start
    \/ Exit
    \/ CreateServer
    \/ ListenAndServe
    \/ AddFile
    \/ RemoveFile
    \/ DoesMigrationTableExist
    \/ CreateTable
    \/ InsertFirstEntry
    \/ LoadCatalog
    \/ ResolvePosition
    \/ NotFound
    \/ UpToDate
    \/ Begin
    \/ OpenFile
    \/ ExecStatement
    \/ FinishPerform
    \/ UpdateMigrationTable
    \/ Commit

Spec == Init /\ [][Next]_vars

(***************************************************************************)
(* The functions called on their own, as the tests of the package call     *)
(* them: getCurrentMigrationIndex on any slice and any ledger value, and   *)
(* performNeededMigrations on any slice and any start index up to its      *)
(* length.                                                                 *)
(***************************************************************************)
SliceNames == {Name1a, Name2b, Name2a, Name10c}

RECURSIVE SlicesUpTo(_)
SlicesUpTo(n) ==
    IF n = 0 THEN {<<>>}
    ELSE LET shorter == SlicesUpTo(n - 1)
         IN  shorter \cup {Append(q, x) : q \in shorter, x \in SliceNames}

InitUnit ==
    /\ testAsset = <<>>
    /\ server = "none"
    /\ other = IdleLocals
    /\ appendOnly = TRUE
    /\ req = NoRequest
    /\ resp = NoResponse
    /\ dir = {}
    /\ tableExists = TRUE
    /\ migrations \in SlicesUpTo(MaxCat)
    /\ \/ /\ pc = "ResolvePosition"
          /\ rows \in {<<v>> : v \in SliceNames \cup {<<>>, NameGone}}
       \/ /\ pc = "CallPerform"
          /\ rows = << <<>> >>
    /\ data = <<>>
    /\ runs = 0
    /\ prevOutcome = "None"
    /\ dirChanged = FALSE
    /\ startIndex = 0
    /\ pending = <<>>
    /\ curFile = <<>>
    /\ fragments = <<>>
    /\ tx = "none"
    /\ txRows = <<>>
    /\ txData = <<>>
    /\ db0 = NoDb
    /\ dbTx = NoDb
    /\ log = <<>>

\* TestPerformNeededMigrations: a transaction is begun and
\* performNeededMigrations(tx, migrations, start) is called
CallPerform ==
    /\ pc = "CallPerform"
    /\ \E start \in 0..Len(migrations) :
          /\ startIndex' = start
          /\ pending' = pendingMigrations(migrations, start)
    /\ log' = Append(log, Ev("begin", <<>>, <<>>, TRUE))
    /\ tx' = "open"
    /\ txRows' = rows
    /\ txData' = <<>>
    /\ dbTx' = CommittedDb
    /\ pc' = "Applying"
    /\ UNCHANGED <<envVars, dbVars, migrations, curFile, fragments>>

NextUnit ==
    \/ ResolvePosition
    \/ CallPerform
    \/ OpenFile
    \/ ExecStatement
    \/ FinishPerform

SpecUnit == InitUnit /\ [][NextUnit]_vars

(***************************************************************************)
(* The Version Tracker called on its own, as TestGetCurrentMigration and   *)
(* TestUpdateMigrationTable call it against a mock database: the ledger    *)
(* table holds any number of rows up to MaxRows.                           *)
(***************************************************************************)
LedgerValues == SliceNames \cup {<<>>, NameGone}

RECURSIVE LedgersUpTo(_)
LedgersUpTo(n) ==
    IF n = 0 THEN {<<>>}
    ELSE LET shorter == LedgersUpTo(n - 1)
         IN  shorter \cup {Append(q, v) : q \in shorter, v \in LedgerValues}

InitLedger ==
    /\ testAsset = <<>>
    /\ server = "none"
    /\ other = IdleLocals
    /\ appendOnly = TRUE
    /\ req = NoRequest
    /\ resp = NoResponse
    /\ dir = {}
    /\ tableExists = TRUE
    /\ rows \in LedgersUpTo(MaxRows)
    /\ \/ /\ pc = "ResolvePosition"
          /\ migrations \in SlicesUpTo(MaxCat)
       \/ /\ pc = "CallUpdate"
          /\ migrations \in SlicesUpTo(MaxCat) \ {<<>>}
    /\ data = <<>>
    /\ runs = 0
    /\ prevOutcome = "None"
    /\ dirChanged = FALSE
    /\ startIndex = 0
    /\ pending = <<>>
    /\ curFile = <<>>
    /\ fragments = <<>>
    /\ tx = "none"
    /\ txRows = <<>>
    /\ txData = <<>>
    /\ db0 = NoDb
    /\ dbTx = NoDb
    /\ log = <<>>

\* TestUpdateMigrationTable: a transaction is begun and
\* updateMigrationTable(tx, migrations) is called
CallUpdate ==
    /\ pc = "CallUpdate"
    /\ log' = Append(log, Ev("begin", <<>>, <<>>, TRUE))
    /\ tx' = "open"
    /\ txRows' = rows
    /\ txData' = <<>>
    /\ dbTx' = CommittedDb
    /\ pc' = "Performed"
    /\ UNCHANGED <<envVars, dbVars, migrations, startIndex, loopVars>>

NextLedger ==
    \/ ResolvePosition
    \/ CallUpdate
    \/ UpdateMigrationTable

SpecLedger == InitLedger /\ [][NextLedger]_vars

(***************************************************************************)
(* The Statement Splitter called on its own, as TestExecSQLFile and        *)
(* TestPerformNeededMigrations call it: a transaction is begun and the one *)
(* file NameAsset, of any content of at most MaxLen characters, is         *)
(* executed.                                                               *)
(***************************************************************************)
\* the characters of the content: a letter, the delimiter, white space and
\* the character the split marker is made of
ContentAlphabet == {"a", ";", " ", "\n", "#"}

RECURSIVE ContentsUpTo(_)
ContentsUpTo(n) ==
    IF n = 0 THEN {<<>>}
    ELSE LET shorter == ContentsUpTo(n - 1)
         IN  shorter \cup {Append(c, ch) : c \in shorter, ch \in ContentAlphabet}

InitSplit ==
    /\ testAsset \in ContentsUpTo(MaxLen)
    /\ server = "none"
    /\ other = IdleLocals
    /\ appendOnly = TRUE
    /\ req = NoRequest
    /\ resp = NoResponse
    /\ dir = {[name |-> NameAsset, isDir |-> FALSE]}
    /\ tableExists = TRUE
    /\ rows = << <<>> >>
    /\ migrations = <<NameAsset>>
    /\ pc = "CallExec"
    /\ data = <<>>
    /\ runs = 0
    /\ prevOutcome = "None"
    /\ dirChanged = FALSE
    /\ startIndex = 0
    /\ pending = <<>>
    /\ curFile = <<>>
    /\ fragments = <<>>
    /\ tx = "none"
    /\ txRows = <<>>
    /\ txData = <<>>
    /\ db0 = NoDb
    /\ dbTx = NoDb
    /\ log = <<>>

\* TestExecSQLFile: tx, _ := db.Begin() and the call that reaches
\* execSQLFile(tx, file)
CallExec ==
    /\ pc = "CallExec"
    /\ pending' = pendingMigrations(migrations, 0)
    /\ log' = Append(log, Ev("begin", <<>>, <<>>, TRUE))
    /\ tx' = "open"
    /\ txRows' = rows
    /\ txData' = <<>>
    /\ dbTx' = CommittedDb
    /\ pc' = "Applying"
    /\ UNCHANGED <<envVars, dbVars, migrations, startIndex, curFile, fragments>>

NextSplit ==
    \/ CallExec
    \/ OpenFile
    \/ ExecStatement
    \/ FinishPerform

SpecSplit == InitSplit /\ [][NextSplit]_vars

(***************************************************************************)
(* Two processes that call DoMigrations on the same database and the same  *)
(* directory.  The variables of the invocation are those of the process    *)
(* that runs; the operating system switches between the two at any time.   *)
(***************************************************************************)
\* the files of the directory the two processes share
SharedNames == {Name1a, Name2b}

InitTwo ==
    /\ testAsset = <<>>
    /\ server = "none"
    /\ other = IdleLocals
    /\ appendOnly = TRUE
    /\ req = NoRequest
    /\ resp = NoResponse
    /\ \E names \in SUBSET SharedNames :
          /\ names # {}
          /\ dir = {[name |-> n, isDir |-> FALSE] : n \in names}
    /\ \/ tableExists = FALSE /\ rows = <<>>
       \/ tableExists = TRUE /\ rows \in {<< <<>> >>, <<NameGone>>}
    /\ data = <<>>
    /\ pc = "Idle"
    /\ runs = 0
    /\ prevOutcome = "None"
    /\ dirChanged = FALSE
    /\ migrations = <<>>
    /\ startIndex = 0
    /\ pending = <<>>
    /\ curFile = <<>>
    /\ fragments = <<>>
    /\ tx = "none"
    /\ txRows = <<>>
    /\ txData = <<>>
    /\ db0 = NoDb
    /\ dbTx = NoDb
    /\ log = <<>>

\* the variables of the invocation of the process that runs
Locals ==
    [pc |-> pc, migrations |-> migrations, startIndex |-> startIndex,
     pending |-> pending, curFile |-> curFile, fragments |-> fragments,
     tx |-> tx, txRows |-> txRows, txData |-> txData, db0 |-> db0,
     dbTx |-> dbTx, log |-> log]

\* the scheduler: the other process runs from here on
Switch ==
    /\ other' = Locals
    /\ pc' = other.pc
    /\ migrations' = other.migrations
    /\ startIndex' = other.startIndex
    /\ pending' = other.pending
    /\ curFile' = other.curFile
    /\ fragments' = other.fragments
    /\ tx' = other.tx
    /\ txRows' = other.txRows
    /\ txData' = other.txData
    /\ db0' = other.db0
    /\ dbTx' = other.dbTx
    /\ log' = other.log
    /\ UNCHANGED <<testAsset, webVars, server, dirVars, runs, prevOutcome,
                   dirChanged, dbVars>>

\* the database: the UPDATE of the other process's open transaction holds
\* the lock of the ledger row until that transaction ends
RowLockedByOther ==
    /\ other.tx = "open"
    /\ \E i \in DOMAIN other.log : other.log[i].op = "update" /\ other.log[i].ok

NextTwo ==
    \/ Start
    \/ Switch
    \/ DoesMigrationTableExist
    \/ CreateTable
    \/ InsertFirstEntry
    \/ LoadCatalog
    \/ ResolvePosition
    \/ NotFound
    \/ UpToDate
    \/ Begin
    \/ OpenFile
    \/ ExecStatement
    \/ FinishPerform
    \/ ~RowLockedByOther /\ UpdateMigrationTable
    \/ Commit

SpecTwo == InitTwo /\ [][NextTwo]_vars

(***************************************************************************)
(* The authentication middleware of the web server, one request at a time. *)
(***************************************************************************)
\* const loginPage = "/login"
loginPage == "/login"

\* what session.Values["isAuthenticated"] may hold: nothing, a bool, or a
\* value of another type
SessionValues ==
    { [type |-> "nil", bool |-> FALSE],
      [type |-> "bool", bool |-> TRUE],
      [type |-> "bool", bool |-> FALSE],
      [type |-> "string", bool |-> FALSE] }

\* the cookie named "session" of a request: none, one that the CookieStore
\* cannot decode, or one that decodes to the values of a session
CookieUniverse ==
    {[present |-> FALSE]}
       \cup {[present |-> TRUE, decodes |-> FALSE]}
       \cup {[present |-> TRUE, decodes |-> TRUE, isAuthenticated |-> v] : v \in SessionValues}

RequestUniverse ==
    [path : {"/login", "/", "/login/", "/links"}, method : {"GET", "POST"},
     cookie : CookieUniverse]

\* cookies.Get(req, sessionName): a new, empty session when there is no
\* cookie, and a new session with an error when the cookie does not decode
cookiesGet(r) ==
    IF ~r.cookie.present
    THEN [isAuthenticated |-> [type |-> "nil", bool |-> FALSE], err |-> FALSE]
    ELSE IF ~r.cookie.decodes
    THEN [isAuthenticated |-> [type |-> "nil", bool |-> FALSE], err |-> TRUE]
    ELSE [isAuthenticated |-> r.cookie.isAuthenticated, err |-> FALSE]

\* IsAuthenticated with a value of any type counted as true
IsAuthenticatedAnyValue(r) ==
    LET session == cookiesGet(r)
    IN  IF session.err THEN [auth |-> FALSE, err |-> TRUE]
        ELSE [auth |-> session.isAuthenticated.type # "nil", err |-> FALSE]

\* IsAuthenticated: (false, err) on a session error, the bool of the session
\* if there is one, false otherwise
IsAuthenticated(r) ==
    LET session == cookiesGet(r)
        val == session.isAuthenticated
    IN  IF session.err THEN [auth |-> FALSE, err |-> TRUE]
        ELSE IF val.type = "bool" THEN [auth |-> val.bool, err |-> FALSE]
        ELSE [auth |-> FALSE, err |-> FALSE]

InitAuth ==
    /\ req = NoRequest
    /\ resp = NoResponse
    /\ testAsset = <<>>
    /\ server = "listening"
    /\ other = IdleLocals
    /\ appendOnly = TRUE
    /\ dir = {}
    /\ tableExists = TRUE
    /\ rows = << <<>> >>
    /\ data = <<>>
    /\ pc = "UpToDate"
    /\ runs = 1
    /\ prevOutcome = "None"
    /\ dirChanged = FALSE
    /\ migrations = <<>>
    /\ startIndex = 0
    /\ pending = <<>>
    /\ curFile = <<>>
    /\ fragments = <<>>
    /\ tx = "none"
    /\ txRows = <<>>
    /\ txData = <<>>
    /\ db0 = NoDb
    /\ dbTx = NoDb
    /\ log = <<>>

\* a client sends the next request
Request ==
    /\ server = "listening"
    /\ req = NoRequest \/ resp # NoResponse
    /\ req' \in RequestUniverse
    /\ resp' = NoResponse
    /\ UNCHANGED <<testAsset, other, server, dirVars, runs, prevOutcome, dirChanged,
                   db0, dbVars, pc, migrations, startIndex, loopVars, txVars, log>>

\* AuthProtected answering a session error with a 500
AuthProtectedFaultOnError ==
    /\ req # NoRequest
    /\ resp = NoResponse
    /\ IF req.path # loginPage /\ IsAuthenticated(req).err
       THEN resp' = [status |-> 500, location |-> "", next |-> FALSE]
       ELSE IF req.path # loginPage /\ ~IsAuthenticated(req).auth
       THEN resp' = [status |-> 302, location |-> loginPage, next |-> FALSE]
       ELSE \E code \in {200, 404} :
               resp' = [status |-> code, location |-> "", next |-> TRUE]
    /\ UNCHANGED <<req, testAsset, other, server, dirVars, runs, prevOutcome,
                   dirChanged, db0, dbVars, pc, migrations, startIndex, loopVars,
                   txVars, log>>

\* the handler AuthProtected returns: on a path other than /login a request
\* that is not authenticated is redirected (the session error is logged
\* only); otherwise next.ServeHTTP writes the response
AuthProtected ==
    /\ req # NoRequest
    /\ resp = NoResponse
    /\ IF req.path # loginPage /\ ~IsAuthenticated(req).auth
       THEN resp' = [status |-> 302, location |-> loginPage, next |-> FALSE]
       ELSE \E code \in {200, 404} :
               resp' = [status |-> code, location |-> "", next |-> TRUE]
    /\ UNCHANGED <<req, testAsset, other, server, dirVars, runs, prevOutcome,
                   dirChanged, db0, dbVars, pc, migrations, startIndex, loopVars,
                   txVars, log>>

NextAuth ==
    \/ Request
    \/ AuthProtected

SpecAuth == InitAuth /\ [][NextAuth]_vars

(***************************************************************************)
(* Reading the log.                                                        *)
(***************************************************************************)
Idx(op) == {i \in DOMAIN log : log[i].op = op}
OkIdx(op) == {i \in Idx(op) : log[i].ok}
FailIdx(op) == {i \in Idx(op) : ~log[i].ok}
EndIdx == Idx("commit") \cup Idx("rollback")

IsExec(e) == e.op = "exec"
IsRead(e) == e.op = "readFile"

\* the statements handed to tx.Exec so far, each with its file, in order
ExecLog ==
    LET execs == SelectSeq(log, IsExec)
    IN  [i \in DOMAIN execs |-> <<execs[i].file, execs[i].arg>>]

\* the files handed to ioutil.ReadFile so far, in order
ReadLog ==
    LET reads == SelectSeq(log, IsRead)
    IN  [i \in DOMAIN reads |-> reads[i].file]

IsPrefix(p, q) == Len(p) <= Len(q) /\ SubSeq(q, 1, Len(p)) = p

\* the statements of a file, in source order
StatementsOf(file) == TrimmedNonEmpty(Split(FileContent(file), ";"))

\* the statements of a sequence of files, each with its file, in order
RECURSIVE AllExecs(_)
AllExecs(files) ==
    IF files = <<>> THEN <<>>
    ELSE LET st == StatementsOf(Head(files))
         IN  [i \in DOMAIN st |-> <<Head(files), st[i]>>] \o AllExecs(Tail(files))

RECURSIVE AllStatements(_)
AllStatements(files) ==
    IF files = <<>> THEN <<>>
    ELSE StatementsOf(Head(files)) \o AllStatements(Tail(files))

\* the catalog entries at the 0-based positions startIndex, ..., len-1
PendingSet == [i \in 1..(Len(migrations) - startIndex) |-> migrations[startIndex + i]]

StatementFailed == FailIdx("exec") # {}

(***************************************************************************)
(* C1.  Atomicity on failure.                                              *)
(***************************************************************************)
\* C1 as stated: after an invocation in which a statement of a pending file
\* failed, the committed database equals the database before the invocation.
C1_UnchangedSinceInvocation ==
    (pc = "RolledBack" /\ StatementFailed) => CommittedDb = db0

\* C1 as amended: after an invocation in which a statement of a pending file
\* failed, the committed database equals the database at the moment the
\* batch transaction was begun: the ledger holds its pre-batch value and no
\* effect of a statement of the batch persists.  What
\* createMigrationTableIfNeeded wrote before the transaction stays.
C1_AtomicRollback ==
    (pc = "RolledBack" /\ StatementFailed) =>
        /\ CommittedDb = dbTx
        /\ data = db0.data
        /\ db0.tableExists => rows = db0.rows

\* a statement of a later file failed after an earlier file had succeeded
C1_Witness ==
    /\ pc = "RolledBack"
    /\ \E i \in OkIdx("exec"), j \in FailIdx("exec") :
          i < j /\ log[i].file # log[j].file

(***************************************************************************)
(* C2.  Round trip of the ledger.                                          *)
(***************************************************************************)
\* C2: after an invocation that committed, the ledger holds one value, the
\* name of the last pending file in catalog order, and the statements of
\* every pending file are committed with it.
C2_LedgerNamesLastPending ==
    pc = "Committed" =>
        /\ Len(rows) = 1
        /\ rows[1] = PendingSet[Len(PendingSet)]
        /\ data = dbTx.data \o AllStatements(PendingSet)

\* a batch of two files committed on top of an earlier batch
C2_Witness ==
    /\ pc = "Committed"
    /\ startIndex >= 1
    /\ Len(PendingSet) >= 2
    /\ Len(data) > Len(dbTx.data)

(***************************************************************************)
(* C3.  Idempotence.                                                       *)
(***************************************************************************)
\* C3: an invocation that follows an invocation that returned, with the
\* directory unchanged in between, begins no transaction, executes no
\* statement and writes nothing.
C3_SecondCallDoesNothing ==
    ( /\ runs >= 2
      /\ pc # "Idle"
      /\ ~dirChanged
      /\ prevOutcome \in {"UpToDate", "NotFound", "Committed", "CommitFailed"} ) =>
        /\ Idx("begin") = {}
        /\ Idx("exec") = {}
        /\ Idx("update") = {}
        /\ Idx("createTable") = {}
        /\ Idx("insertSeed") = {}
        /\ CommittedDb = db0

\* the same statement for the invocations that follow one whose batch was
\* committed or that had nothing to apply: it holds, so the violation above
\* needs the first call to return after a commit that failed
C3_NothingAfterAppliedBatch ==
    ( /\ runs >= 2
      /\ pc # "Idle"
      /\ ~dirChanged
      /\ prevOutcome \in {"UpToDate", "NotFound", "Committed"} ) =>
        /\ Idx("begin") = {}
        /\ Idx("exec") = {}
        /\ Idx("update") = {}
        /\ Idx("createTable") = {}
        /\ Idx("insertSeed") = {}
        /\ CommittedDb = db0

(***************************************************************************)
(* C4.  Missing ledger entry.                                              *)
(***************************************************************************)
\* C4: once the ledger value read is non-empty and equals no name of the
\* catalog, the invocation can only emit the warning and return: it never
\* panics, begins no transaction, executes no statement and leaves the
\* database as it was when the invocation started.
C4_NotFoundPolicy ==
    \A r \in OkIdx("selectVersion") :
        ( /\ log[r].arg # <<>>
          /\ \A k \in DOMAIN migrations : migrations[k] # log[r].arg ) =>
            /\ startIndex = 0 - 1
            /\ pc \in {"PositionResolved", "NotFound"}
            /\ pc = "PositionResolved" => ENABLED NotFound
            /\ pc = "NotFound" => OkIdx("warning") # {}
            /\ Idx("begin") = {} /\ Idx("exec") = {} /\ Idx("update") = {}
            /\ tx = "none"
            /\ CommittedDb = db0

\* the warning was emitted for a ledger value missing from a catalog of files
C4_Witness ==
    /\ pc = "NotFound"
    /\ migrations # <<>>
    /\ rows # << <<>> >>

(***************************************************************************)
(* C5.  One transaction per batch.                                         *)
(***************************************************************************)
\* C5: an invocation begins at most one transaction; every statement and the
\* ledger update run after its begin and before its end, and it is ended
\* exactly once, by a commit or by a rollback.
C5_OneTransaction ==
    /\ Cardinality(Idx("begin")) <= 1
    /\ \A i \in Idx("exec") \cup Idx("update") \cup EndIdx :
          /\ \E b \in OkIdx("begin") : b < i
          /\ \A e \in EndIdx : i <= e
    /\ Cardinality(EndIdx) <= 1
    /\ (pc \in Terminal /\ OkIdx("begin") # {}) => Cardinality(EndIdx) = 1
    /\ tx = "open" <=> (OkIdx("begin") # {} /\ EndIdx = {})

\* a batch of two files went through one transaction to its commit
C5_Witness ==
    /\ pc = "Committed"
    /\ Len(ReadLog) >= 2
    /\ Cardinality(OkIdx("begin")) = 1

(***************************************************************************)
(* C6.  Ordering of the ledger update.                                     *)
(***************************************************************************)
\* C6: the ledger UPDATE is issued inside the open transaction and only
\* after every statement of every pending file has executed successfully;
\* the commit is issued only after the UPDATE; where a statement or a file
\* read failed the ledger is not written.
C6_UpdateOrdering ==
    /\ \A u \in Idx("update") :
          /\ \E b \in OkIdx("begin") : b < u
          /\ \A e \in EndIdx : u < e
          /\ \A i \in Idx("exec") : i < u /\ log[i].ok
          /\ ExecLog = AllExecs(PendingSet)
          /\ log[u].arg = migrations[Len(migrations)]
    /\ \A c \in Idx("commit") : \E u \in OkIdx("update") : u < c
    /\ (FailIdx("exec") # {} \/ FailIdx("readFile") # {}) =>
          /\ Idx("update") = {}
          /\ rows = dbTx.rows

\* the update was issued after the statements of two files
C6_Witness ==
    /\ pc = "Commit"
    /\ OkIdx("update") # {}
    /\ \E i, j \in OkIdx("exec") : log[i].file # log[j].file

(***************************************************************************)
(* C7.  Fail fast.                                                         *)
(***************************************************************************)
\* C7: a failed statement or file read is followed at once by the rollback
\* and the abort: nothing is executed after it, and neither the ledger
\* update nor a commit is issued.
C7_FailFast ==
    \A f \in FailIdx("exec") \cup FailIdx("readFile") :
        /\ Len(log) = f + 1
        /\ log[f + 1].op = "rollback"
        /\ pc = "RolledBack"
        /\ tx = "rolledback"
        /\ Idx("update") = {}
        /\ Idx("commit") = {}

\* a statement failed while fragments of its file and later files remained
C7_Witness ==
    /\ pc = "RolledBack"
    /\ FailIdx("exec") # {}
    /\ Len(fragments) >= 2
    /\ pending # <<>>

(***************************************************************************)
(* C8.  The start index.                                                   *)
(***************************************************************************)
\* C8: getCurrentMigrationIndex returns 0 for the empty ledger value, i+1
\* when the first catalog entry equal to the ledger value is at position i,
\* and -1 when the ledger value is non-empty and equals no entry.
C8_StartIndex ==
    pc = "PositionResolved" =>
        \A r \in OkIdx("selectVersion") :
            LET v == log[r].arg
            IN  /\ v = <<>> => startIndex = 0
                /\ (v # <<>> /\ \A k \in DOMAIN migrations : migrations[k] # v)
                      => startIndex = 0 - 1
                /\ \A i \in 0..(Len(migrations) - 1) :
                      ( /\ v # <<>>
                        /\ migrations[i + 1] = v
                        /\ \A j \in 0..(i - 1) : migrations[j + 1] # v )
                      => startIndex = i + 1

\* the ledger value occurs twice in the slice and the first occurrence counts
C8_Witness ==
    /\ pc = "PositionResolved"
    /\ Len(migrations) = 3
    /\ migrations[2] = rows[1]
    /\ migrations[3] = rows[1]
    /\ migrations[1] # rows[1]
    /\ startIndex = 2

(***************************************************************************)
(* C9.  Order and extent of the execution.                                 *)
(***************************************************************************)
\* C9: performNeededMigrations reads the files at the positions startIndex,
\* ..., len-1 in catalog order and executes their statements in source
\* order, nothing else; when it returns it has executed all of them, and
\* for startIndex = len it executes nothing.
C9_ExecutionOrder ==
    pc \in {"Applying", "Performed", "RolledBack"} =>
        /\ IsPrefix(ReadLog, PendingSet)
        /\ IsPrefix(ExecLog, AllExecs(PendingSet))
        /\ pc = "Performed" =>
              /\ ReadLog = PendingSet
              /\ ExecLog = AllExecs(PendingSet)
        /\ startIndex = Len(migrations) => ExecLog = <<>> /\ ReadLog = <<>>

\* the call with start index 1 on a slice of three files returned
C9_Witness ==
    /\ pc = "Performed"
    /\ startIndex = 1
    /\ Len(migrations) = 3
    /\ Len(ExecLog) >= 2
    /\ ReadLog = <<migrations[2], migrations[3]>>

(***************************************************************************)
(* C10.  Up to date.                                                       *)
(***************************************************************************)
\* C10: once the ledger value read names the last catalog entry, or is empty
\* with an empty catalog, the invocation can only log that the database is
\* up to date and return: it begins no transaction, executes no statement
\* and does not write the ledger.
C10_UpToDateNoOp ==
    \A r \in OkIdx("selectVersion") :
        ( \/ migrations # <<>> /\ log[r].arg = migrations[Len(migrations)]
          \/ migrations = <<>> /\ log[r].arg = <<>> ) =>
            /\ startIndex = Len(migrations)
            /\ pc \in {"PositionResolved", "UpToDate"}
            /\ pc = "PositionResolved" => ENABLED UpToDate
            /\ pc = "UpToDate" => OkIdx("upToDate") # {}
            /\ Idx("begin") = {} /\ Idx("exec") = {} /\ Idx("update") = {}
            /\ tx = "none"
            /\ rows = <<log[r].arg>>
            /\ data = db0.data
            /\ db0.tableExists => CommittedDb = db0

\* the ledger named the last file of a catalog of two after a committed batch
C10_Witness ==
    /\ pc = "UpToDate"
    /\ Len(migrations) >= 2
    /\ prevOutcome = "Committed"

(***************************************************************************)
(* C11.  The row count of the ledger update.                               *)
(***************************************************************************)
\* C11: updateMigrationTable returns normally only when its UPDATE affected
\* exactly one row; with no row or several rows affected it rolls back and
\* aborts.
C11_UpdateAffectsOneRow ==
    \A u \in OkIdx("update") : pc = "Commit" => Len(txRows) = 1

(***************************************************************************)
(* C12.  The consistency check of the ledger read.                         *)
(***************************************************************************)
\* C12: getCurrentMigration returns a value only from a ledger table of
\* exactly one row; a failed read, no row or several rows are fatal.
C12_ReadNeedsOneRow ==
    /\ \A r \in OkIdx("selectVersion") : Len(rows) = 1
    /\ (pc = "Fatal" /\ FailIdx("selectVersion") # {}) => OkIdx("selectVersion") = {}

(***************************************************************************)
(* C13.  The ledger table holds at most one row.                           *)
(***************************************************************************)
\* C13: over any sequence of invocations, whatever their outcomes, the
\* ledger table holds at most one row; a row is inserted at most once per
\* invocation, directly after the successful CREATE TABLE, and no other step
\* changes the number of rows.
C13_SingleRow ==
    /\ [](/\ Len(rows) <= 1
          /\ tx = "open" => Len(txRows) <= 1
          /\ Cardinality(Idx("insertSeed")) <= 1
          /\ \A i \in Idx("insertSeed") :
                i > 1 /\ log[i - 1].op = "createTable" /\ log[i - 1].ok)
    /\ [][Len(rows') # Len(rows)
             => /\ pc = "SeedRow"
                /\ rows = <<>>
                /\ rows' = << <<>> >>
                /\ OkIdx("createTable") # {}]_vars

\* a second invocation that follows an aborted one commits a batch on the
\* one row of the ledger, without inserting
C13_Witness ==
    /\ runs = 2
    /\ prevOutcome \in {"RolledBack", "Fatal"}
    /\ pc = "Committed"
    /\ Idx("insertSeed") = {}
    /\ Len(rows) = 1
    /\ rows[1] # <<>>

(***************************************************************************)
(* C14.  createMigrationTableIfNeeded.                                     *)
(***************************************************************************)
\* C14: CREATE TABLE is issued exactly when the existence check found no
\* table named _migrations_, and the insert of the seed row (the empty
\* string) exactly after a successful CREATE TABLE; with an existing table
\* nothing is written; both writes come before the ledger read and before
\* the transaction is begun, and a rollback does not undo them.
C14_EnsureTable ==
    LET checked == OkIdx("listTables")
        creates == Idx("createTable")
        seeds   == Idx("insertSeed")
        later   == Idx("readDir") \cup Idx("selectVersion") \cup Idx("begin")
    IN  /\ creates # {} => checked = {1} /\ log[1].arg # migrationTable /\ creates = {2}
        /\ (checked # {} /\ log[1].arg # migrationTable)
              => creates # {} \/ pc = "CreateTable"
        /\ seeds # {} => OkIdx("createTable") # {} /\ seeds = {3}
        /\ OkIdx("createTable") # {} => seeds # {} \/ pc = "SeedRow"
        /\ \A i \in creates \cup seeds : \A j \in later : i < j
        /\ (pc = "LoadCatalog" /\ OkIdx("insertSeed") # {})
              => /\ ~db0.tableExists
                 /\ CommittedDb = [db0 EXCEPT !.tableExists = TRUE, !.rows = << <<>> >>]
        /\ (db0.tableExists /\ pc # "Idle" /\ Idx("begin") = {})
              => OkIdx("createTable") = {} /\ seeds = {} /\ CommittedDb = db0
        /\ (pc = "RolledBack" /\ OkIdx("insertSeed") # {})
              => tableExists /\ rows = << <<>> >>

\* the table was created and seeded, and the batch that followed was rolled
\* back
C14_Witness ==
    /\ pc = "RolledBack"
    /\ OkIdx("insertSeed") # {}
    /\ rows = << <<>> >>

(***************************************************************************)
(* C15, C16, C17.  The Migration Catalog.  The catalog of an invocation is *)
(* looked at from the moment ioutil.ReadDir succeeded.                     *)
(***************************************************************************)
CatalogLoaded == OkIdx("readDir") # {}

\* the positions of a name in the catalog
CatalogPositions(name) == {i \in DOMAIN migrations : migrations[i] = name}

\* the part of a name before its first "_" (the whole name if it has none)
PrefixOf(name) ==
    LET under == {i \in DOMAIN name : name[i] = "_"}
        stop == IF under = {} THEN Len(name) + 1
                ELSE CHOOSE i \in under : \A j \in under : i <= j
    IN  SubSeq(name, 1, stop - 1)

\* a decimal numeral without a sign
IsNonNegativeInteger(s) ==
    /\ s # <<>>
    /\ \A i \in DOMAIN s : \E d \in DOMAIN Digits : Digits[d] = s[i]

\* the filtering rule in the words of the specification
Qualifies(e) ==
    /\ ~e.isDir
    /\ Len(e.name) >= 4
    /\ SubSeq(e.name, Len(e.name) - 3, Len(e.name)) = <<".", "s", "q", "l">>
    /\ IsNonNegativeInteger(PrefixOf(e.name))

\* C15: an entry of the directory is in the catalog if and only if it is a
\* regular file whose name ends in .sql and whose prefix before the first "_"
\* is a non-negative integer; a qualifying entry is there exactly once and
\* nothing else is in the catalog.
C15_CatalogFilter ==
    CatalogLoaded =>
        /\ \A e \in dir :
              Cardinality(CatalogPositions(e.name)) = (IF Qualifies(e) THEN 1 ELSE 0)
        /\ \A i \in DOMAIN migrations : \E e \in dir : e.name = migrations[i]

\* the integer a numeral stands for, with its sign
RECURSIVE NumeralValue(_)
NumeralValue(s) ==
    IF s = <<>> THEN 0
    ELSE IF Head(s) = "-" THEN 0 - NumeralValue(Tail(s))
    ELSE IF Head(s) = "+" THEN NumeralValue(Tail(s))
    ELSE 10 * NumeralValue(SubSeq(s, 1, Len(s) - 1)) + DigitVal(s[Len(s)])

OrderKey(name) == NumeralValue(PrefixOf(name))

\* C16: the catalog is in ascending order of the integer value of the
\* numeric prefix.
C16_CatalogAscending ==
    CatalogLoaded =>
        \A i, j \in DOMAIN migrations :
            i < j => OrderKey(migrations[i]) <= OrderKey(migrations[j])

\* 2_b.sql stands before 10_c.sql, against the order of the names
C16_Witness ==
    /\ CatalogLoaded
    /\ \E i, j \in DOMAIN migrations :
          i < j /\ migrations[i] = Name2b /\ migrations[j] = Name10c

\* the position of a name in the enumeration of the directory
EnumerationPosition(name) ==
    LET listing == ReadDir(dir)
    IN  CHOOSE k \in DOMAIN listing : listing[k].name = name

\* C17: two files of the catalog with the same numeric prefix stand in the
\* order in which ioutil.ReadDir enumerated them, and a scan of the same
\* directory yields the same catalog.
C17_StableTies ==
    CatalogLoaded =>
        /\ \A i, j \in DOMAIN migrations :
              (i < j /\ OrderKey(migrations[i]) = OrderKey(migrations[j]))
                 => EnumerationPosition(migrations[i]) < EnumerationPosition(migrations[j])
        /\ (prevOutcome # "None" /\ ~dirChanged)
              => migrations = getMigrationsInOrder(dir)

\* 2_a.sql and 2_b.sql are both in the catalog of a second scan
C17_Witness ==
    /\ CatalogLoaded
    /\ runs = 2
    /\ ~dirChanged
    /\ \E i, j \in DOMAIN migrations :
          i < j /\ migrations[i] = Name2a /\ migrations[j] = Name2b

(***************************************************************************)
(* C18, C19.  The Statement Splitter.                                      *)
(***************************************************************************)
\* the split marker; the tests name it fullSplitToken
fullSplitToken == <<"#", "#">>

\* the token occurs in the content
Contains(content, token) ==
    \E i \in 1..(Len(content) - Len(token) + 1) :
        SubSeq(content, i, i + Len(token) - 1) = token

\* the pieces of the content between the occurrences of the token
RECURSIVE PiecesBetween(_, _)
PiecesBetween(content, token) ==
    IF ~Contains(content, token) THEN <<content>>
    ELSE LET at == {i \in 1..(Len(content) - Len(token) + 1) :
                       SubSeq(content, i, i + Len(token) - 1) = token}
             first == CHOOSE i \in at : \A j \in at : i <= j
         IN  <<SubSeq(content, 1, first - 1)>>
                \o PiecesBetween(SubSeq(content, first + Len(token), Len(content)), token)

\* a piece from its first to its last character that is not white space
Trimmed(piece) ==
    LET solid == {i \in DOMAIN piece : ~IsSpace(piece[i])}
    IN  IF solid = {} THEN <<>>
        ELSE SubSeq(piece, CHOOSE i \in solid : \A j \in solid : i <= j,
                           CHOOSE i \in solid : \A j \in solid : i >= j)

NotEmpty(piece) == piece # <<>>

\* the statements of a content that is split on a token
ExpectedStatements(content, token) ==
    LET pieces == PiecesBetween(content, token)
    IN  SelectSeq([k \in DOMAIN pieces |-> Trimmed(pieces[k])], NotEmpty)

\* the statements handed to tx.Exec so far, in order
Executed ==
    LET execs == SelectSeq(log, IsExec)
    IN  [i \in DOMAIN execs |-> execs[i].arg]

\* C18: for a content without the split marker, the statements execSQLFile
\* executes are the pieces between the ";" of the content, trimmed, the empty
\* ones left out, in the order of the source: a prefix of them at any time,
\* all of them when the file is done; no statement is empty or begins or
\* ends with white space.
C18_DefaultSplit ==
    LET expected == ExpectedStatements(testAsset, <<";">>)
    IN  (~Contains(testAsset, fullSplitToken) /\ OkIdx("readFile") # {})
           => /\ IsPrefix(Executed, expected)
              /\ pc = "Performed" => Executed = expected
              /\ pc = "RolledBack" => FailIdx("exec") = {Len(log) - 1}
              /\ \A i \in DOMAIN Executed :
                    /\ Executed[i] # <<>>
                    /\ ~IsSpace(Executed[i][1])
                    /\ ~IsSpace(Executed[i][Len(Executed[i])])

\* "a;\na;" was executed as the two statements "a" and "a"
C18_Witness ==
    /\ testAsset = <<"a", ";", "\n", "a", ";">>
    /\ pc = "Performed"
    /\ Executed = << <<"a">>, <<"a">> >>

\* C19: a content that holds the split marker is split on the marker and
\* not on ";": its statements are the pieces between the markers, trimmed,
\* the empty ones left out, with every ";" left in them.
C19_MarkerSplit ==
    (Contains(testAsset, fullSplitToken) /\ pc = "Performed")
       => Executed = ExpectedStatements(testAsset, fullSplitToken)

(***************************************************************************)
(* C20.  The state machine of an invocation.                               *)
(***************************************************************************)
\* the invocation has ended: DoMigrations returned or panicked
Ended == pc \in Terminal

\* a step of the invocation itself
InvocationStep ==
    \/ DoesMigrationTableExist
    \/ CreateTable
    \/ InsertFirstEntry
    \/ LoadCatalog
    \/ ResolvePosition
    \/ NotFound
    \/ UpToDate
    \/ Begin
    \/ OpenFile
    \/ ExecStatement
    \/ FinishPerform
    \/ UpdateMigrationTable
    \/ Commit

\* table check, catalog load and position resolution were passed, in order
PassedThreePhases ==
    \E i \in OkIdx("listTables"), j \in OkIdx("readDir"), k \in OkIdx("selectVersion") :
        i < j /\ j < k

\* the operations that panic with no transaction to roll back
PanicOps == {"listTables", "createTable", "insertSeed", "readDir", "selectVersion", "begin"}

\* C20 as stated: an invocation that has ended went through the three
\* phases and is in one of the four states UpToDate, NotFound, Committed and
\* RolledBack.
C20_FourTerminalStates ==
    Ended => /\ pc \in {"UpToDate", "NotFound", "Committed", "RolledBack"}
             /\ PassedThreePhases

\* C20, amended: the phases are entered in the order table check, catalog
\* load, position resolution, transaction; an invocation ends in UpToDate,
\* NotFound, Committed or RolledBack only after the three phases, or it ends
\* in a panic without a rollback at the first failure of the table check,
\* the table creation, the seed insert, the directory listing, the ledger
\* read or db.Begin, or it returns after a failed commit; until then a step
\* of the invocation is possible, and after it none: the steps left are
\* those of main, creating and starting the server, and the end of the
\* process, none of which changes the database.
C20_StateMachine ==
    /\ [](/\ \A j \in Idx("readDir") : \E i \in OkIdx("listTables") : i < j
          /\ \A k \in Idx("selectVersion") : \E j \in OkIdx("readDir") : j < k
          /\ \A b \in Idx("begin") : \E k \in OkIdx("selectVersion") : k < b
          /\ pc \in {"UpToDate", "NotFound", "Committed", "RolledBack", "CommitFailed"}
                => PassedThreePhases
          /\ pc \in {"UpToDate", "NotFound"} => Idx("begin") = {}
          /\ pc = "Committed" => OkIdx("commit") = {Len(log)}
          /\ pc = "RolledBack" => Idx("rollback") = {Len(log)} /\ ~log[Len(log) - 1].ok
          /\ pc = "CommitFailed" => FailIdx("commit") = {Len(log)}
          /\ pc = "Fatal" => /\ log[Len(log)].op \in PanicOps
                             /\ ~log[Len(log)].ok
                             /\ Idx("rollback") = {}
                             /\ tx = "none"
          /\ \A i \in DOMAIN log : (~log[i].ok /\ log[i].op \in PanicOps) => i = Len(log) /\ pc = "Fatal"
          /\ Ended => ~ENABLED InvocationStep
          /\ (pc \notin Terminal /\ pc # "Idle") => ENABLED InvocationStep)
    /\ [][Ended => /\ UNCHANGED dbVars
                    /\ \/ pc' = "Idle" /\ prevOutcome' = pc
                       \/ UNCHANGED <<pc, log, txVars>> /\ server' # server]_vars

\* db.Begin failed after the position was resolved: the invocation ended
\* in a state that is none of the four
C20_Witness ==
    /\ pc = "Fatal"
    /\ FailIdx("begin") # {}
    /\ PassedThreePhases

(***************************************************************************)
(* C21.  The bootstrap sequence.                                           *)
(***************************************************************************)
\* the operations whose failure is a fatal condition
FatalOps == PanicOps \cup {"readFile", "exec", "update"}

\* C21: the server is created, and listens, only after DoMigrations has
\* returned without a panic: no fatal condition has occurred, nothing was
\* rolled back, no transaction is open, and of the batch either every
\* statement is committed or none; the server listens only once created.
C21_NoTrafficAfterFatal ==
    /\ [](server # "none"
            => /\ pc \in {"UpToDate", "NotFound", "Committed", "CommitFailed"}
               /\ \A i \in DOMAIN log : log[i].op \in FatalOps => log[i].ok
               /\ Idx("rollback") = {}
               /\ tx # "open"
               /\ IF OkIdx("commit") = {}
                  THEN data = db0.data /\ (db0.tableExists => rows = db0.rows)
                  ELSE /\ data = db0.data \o AllStatements(PendingSet)
                       /\ rows = <<newestMigration(migrations)>>)
    /\ [][server' = "listening" => server \in {"created", "listening"}]_vars

\* the server listens after a batch was committed
C21_Witness ==
    /\ server = "listening"
    /\ pc = "Committed"
    /\ data # db0.data

(***************************************************************************)
(* C22.  The migrations directory cannot be listed.                        *)
(***************************************************************************)
\* C22: once ioutil.ReadDir has failed the invocation has ended in a panic:
\* the directory was listed that one time only, no step of the invocation is
\* left, the ledger was not read, no transaction was begun, no statement was
\* executed, and the ledger value and the data are those of the start of the
\* invocation (the seed value, if the table was created on the way).
C22_UnreadableDirectory ==
    FailIdx("readDir") # {}
       => /\ pc = "Fatal"
          /\ Idx("readDir") = {Len(log)}
          /\ ~ENABLED InvocationStep
          /\ server = "none"
          /\ Idx("selectVersion") = {}
          /\ Idx("begin") = {}
          /\ Idx("exec") = {}
          /\ tx = "none"
          /\ data = db0.data
          /\ IF db0.tableExists THEN rows = db0.rows
             ELSE tableExists /\ rows = << <<>> >>

\* the listing failed on a database whose ledger names a file
C22_Witness ==
    /\ FailIdx("readDir") # {}
    /\ pc = "Fatal"
    /\ rows = <<NameGone>>

(***************************************************************************)
(* C23.  The ledger read and the transaction.                              *)
(***************************************************************************)
\* C23: the ledger read that determines the pending set, every statement
\* of the batch and the ledger update lie inside the one transaction of the
\* batch: after its begin and before its commit or rollback.
C23_ReadInsideTransaction ==
    \A i \in Idx("selectVersion") \cup Idx("exec") \cup Idx("update") :
        /\ \E b \in OkIdx("begin") : b < i
        /\ \A e \in EndIdx : i < e

(***************************************************************************)
(* C24.  Two processes at once.                                            *)
(***************************************************************************)
\* the statements the other process executed successfully, with their files
OtherExecuted ==
    {<<other.log[i].file, other.log[i].arg>> :
        i \in {j \in DOMAIN other.log : other.log[j].op = "exec" /\ other.log[j].ok}}

\* the same for the process that runs
SelfExecuted == {<<log[i].file, log[i].arg>> : i \in OkIdx("exec")}

\* C24: the engine has no lock: whatever the other process has done or has
\* open, a process that found a pending set can begin its transaction, read
\* the next file and execute the next statement, also a statement that the
\* other process has executed; the one step that waits for the other process
\* is the UPDATE, on the row lock of the database.
C24_NoEngineLock ==
    /\ (pc = "PositionResolved" /\ startIndex # 0 - 1 /\ startIndex # Len(migrations))
          => ENABLED Begin
    /\ (pc = "Applying" /\ fragments = <<>> /\ pending # <<>>) => ENABLED OpenFile
    /\ (pc = "Applying" /\ fragments # <<>>) => ENABLED ExecStatement
    /\ (pc \notin Terminal /\ pc # "Idle" /\ ~(pc = "Performed" /\ RowLockedByOther))
          => ENABLED InvocationStep

\* both processes executed the statements of the same file and both
\* committed: every statement is in the data twice
C24_Witness ==
    /\ pc = "Committed"
    /\ other.pc = "Committed"
    /\ SelfExecuted \cap OtherExecuted # {}
    /\ data = AllStatements(migrations) \o AllStatements(migrations)

(***************************************************************************)
(* C25.  The commit.                                                       *)
(***************************************************************************)
\* C25: when DoMigrations has returned without a panic after it began a
\* transaction, the transaction is committed and the ledger holds the name of
\* the last file of the catalog; a failed commit never ends in a return.
C25_NoSilentCommitFailure ==
    (Ended /\ pc \notin {"Fatal", "RolledBack"} /\ OkIdx("begin") # {})
       => /\ FailIdx("commit") = {}
          /\ OkIdx("commit") # {}
          /\ tx = "committed"
          /\ rows = <<newestMigration(migrations)>>

(***************************************************************************)
(* C26.  Every migration file is applied once.                             *)
(***************************************************************************)
\* how often a statement is among the committed data
Occurrences(statement) == Cardinality({i \in DOMAIN data : data[i] = statement})

\* C26: as long as the directory has changed only by files added at the
\* end of the catalog, no statement of a migration file is committed more
\* than once, whatever the outcomes of the invocations so far; and when an
\* invocation has ended Committed or UpToDate, the committed data are the
\* statements of every file of the catalog, once each and in the order of
\* the catalog, and the ledger names the last file of the catalog.
C26_ExactlyOnce ==
    appendOnly
       => /\ \A i \in DOMAIN data : Occurrences(data[i]) = 1
          /\ pc \in {"Committed", "UpToDate"}
                => /\ data = AllStatements(migrations)
                   /\ migrations # <<>> => rows = <<migrations[Len(migrations)]>>

\* a second invocation committed the file that was added after the first
\* had committed the others
C26_Witness ==
    /\ appendOnly
    /\ runs = 2
    /\ dirChanged
    /\ prevOutcome = "Committed"
    /\ pc = "Committed"
    /\ Len(migrations) >= 2
    /\ txData # <<>>
    /\ Len(txData) < Len(data)

(***************************************************************************)
(* C27.  The seed row.                                                     *)
(***************************************************************************)
\* C27: a ledger table that exists holds its seed row: the creation of the
\* table and the insert of the row take effect together or not at all,
\* whatever step an invocation was aborted at.
C27_TableHasSeedRow == tableExists => Len(rows) = 1

(***************************************************************************)
(* C28.  The values of the ledger.                                         *)
(***************************************************************************)
\* C28: the committed ledger changes only in two ways: the seed row with
\* the empty string is inserted into the table just created, or a commit
\* writes the full name of the file that is the last of the catalog, a
\* migration file of the directory; a value that is not the empty string is
\* never replaced by the empty string.
C28_LedgerValues ==
    /\ [](\A i \in DOMAIN rows :
             rows[i] = <<>> \/ HasSuffix(rows[i], <<".", "s", "q", "l">>))
    /\ [][rows' # rows
             => \/ /\ pc = "SeedRow"
                   /\ rows = <<>>
                   /\ rows' = << <<>> >>
                \/ /\ pc = "Commit"
                   /\ pc' = "Committed"
                   /\ migrations = getMigrationsInOrder(dir)
                   /\ rows' = <<migrations[Len(migrations)]>>
                   /\ \E e \in dir : ~e.isDir /\ e.name = rows'[1]]_vars
    /\ [][\A i \in DOMAIN rows :
             rows[i] # <<>> => i \in DOMAIN rows' /\ rows'[i] # <<>>]_vars

\* a commit replaced a ledger value that names no file by the name of the
\* last file of the catalog
C28_Witness ==
    /\ pc = "Committed"
    /\ rows = <<Name10c>>
    /\ db0.rows # << <<>> >>
    /\ db0.tableExists

(***************************************************************************)
(* C30.  The bounds of the start index.                                    *)
(***************************************************************************)
\* C30: the start index is -1 or in 0..len(migrations); the transaction,
\* the slice migrations[startIndex:] and the access migrations[len-1] are
\* reached only with 0 <= startIndex < len(migrations), never with an empty
\* catalog.
C30_IndexBounds ==
    /\ OkIdx("selectVersion") # {}
          => startIndex \in (0 - 1)..Len(migrations)
    /\ (Idx("begin") # {} \/ pc \in {"Applying", "Performed", "Commit"})
          => /\ 0 <= startIndex
             /\ startIndex < Len(migrations)
             /\ migrations # <<>>
    /\ Idx("update") # {} => Len(migrations) >= 1
    /\ pc = "Performed" => ENABLED UpdateMigrationTable

\* the ledger names the file before the last: the batch starts at the last
\* index of the catalog
C30_Witness ==
    /\ pc = "Commit"
    /\ Len(migrations) >= 2
    /\ startIndex = Len(migrations) - 1

(***************************************************************************)
(* C29.  AuthProtected.                                                    *)
(***************************************************************************)
\* the request has been answered
Answered == req # NoRequest /\ resp # NoResponse

\* the cookie of the request decodes to a session whose isAuthenticated is
\* the bool true
CarriesAuthentication ==
    /\ req.cookie.present
    /\ req.cookie.decodes
    /\ req.cookie.isAuthenticated = [type |-> "bool", bool |-> TRUE]

\* C29: the next handler is invoked exactly for the path /login and for a
\* session cookie that decodes and carries isAuthenticated = true; every
\* other request, also one whose cookie does not decode, is answered with a
\* 302 to /login, never with a 500, and does not reach the next handler.
C29_AuthProtected ==
    Answered
       => /\ resp.next <=> (req.path = "/login" \/ CarriesAuthentication)
          /\ ~resp.next => resp.status = 302 /\ resp.location = "/login"
          /\ resp.next => resp.status \in {200, 404}

\* a request with a cookie that does not decode was redirected
C29_Witness ==
    /\ Answered
    /\ req.path = "/links"
    /\ req.cookie.present
    /\ ~req.cookie.decodes
    /\ resp.status = 302
    /\ ~resp.next

====
